---------------------------- MODULE Spec2Model ----------------------------
(***************************************************************************)
(* Model of the INEP microdata loader: extract_microdados.py drives        *)
(* process_csv_files (extract_helpers.py) over one directory per census    *)
(* year; every CSV file is read in chunks, rows with missing values are    *)
(* dropped, and each chunk is appended to nine dimension tables and to the *)
(* fact table "microdados" of a SQLite database.                           *)
(*                                                                         *)
(* A column name is the sequence of its "_"-separated tokens, so that      *)
(* str.startswith is a real prefix test.  A cell is text, as in the CSV    *)
(* file: "" is a missing value, IntOf gives the numeric texts.             *)
(***************************************************************************)
EXTENDS Integers, Sequences, FiniteSets, TLC

VARIABLES year, pc, listing, fidx, usecols, pos, chunk, tbl, db, log,
          fs, prov, batches, handled, lastAppend

vars == <<year, pc, listing, fidx, usecols, pos, chunk, tbl, db, log,
          fs, prov, batches, handled, lastAppend>>

---------------------------------------------------------------------------
(* Bounds of the model.                                                    *)

\* Number of census years of the configured range start_year..end_year.
NumYears == 2
\* Largest number of files under the data directory, all years together.
MaxFiles == 2
\* Rows per chunk; the program passes 50000, the model a small stand-in.
chunksize == 2

---------------------------------------------------------------------------
(* Column names.                                                           *)

NU_ANO_CENSO == <<"NU", "ANO", "CENSO">>
NO_REGIAO == <<"NO", "REGIAO">>
CO_REGIAO == <<"CO", "REGIAO">>
NO_UF == <<"NO", "UF">>
SG_UF == <<"SG", "UF">>
CO_UF == <<"CO", "UF">>
NO_MUNICIPIO == <<"NO", "MUNICIPIO">>
CO_MUNICIPIO == <<"CO", "MUNICIPIO">>
TP_ORGANIZACAO_ACADEMICA == <<"TP", "ORGANIZACAO", "ACADEMICA">>
TP_REDE == <<"TP", "REDE">>
TP_CATEGORIA_ADMINISTRATIVA == <<"TP", "CATEGORIA", "ADMINISTRATIVA">>
CO_IES == <<"CO", "IES">>
NO_CURSO == <<"NO", "CURSO">>
CO_CURSO == <<"CO", "CURSO">>
NO_CINE_ROTULO == <<"NO", "CINE", "ROTULO">>
CO_CINE_ROTULO == <<"CO", "CINE", "ROTULO">>
CO_CINE_AREA_GERAL == <<"CO", "CINE", "AREA", "GERAL">>
NO_CINE_AREA_GERAL == <<"NO", "CINE", "AREA", "GERAL">>
CO_CINE_AREA_ESPECIFICA == <<"CO", "CINE", "AREA", "ESPECIFICA">>
NO_CINE_AREA_ESPECIFICA == <<"NO", "CINE", "AREA", "ESPECIFICA">>
CO_CINE_AREA_DETALHADA == <<"CO", "CINE", "AREA", "DETALHADA">>
NO_CINE_AREA_DETALHADA == <<"NO", "CINE", "AREA", "DETALHADA">>
TP_GRAU_ACADEMICO == <<"TP", "GRAU", "ACADEMICO">>
IN_GRATUITO == <<"IN", "GRATUITO">>
TP_MODALIDADE_ENSINO == <<"TP", "MODALIDADE", "ENSINO">>
TP_NIVEL_ACADEMICO == <<"TP", "NIVEL", "ACADEMICO">>

\* Columns a census file may carry beyond the static selection.
QT_ING == <<"QT", "ING">>
QT_CONC == <<"QT", "CONC">>
QT_MAT == <<"QT", "MAT">>

\* extract_microdados.selected_columns
selected_columns ==
    << NU_ANO_CENSO, NO_REGIAO, CO_REGIAO, NO_UF, SG_UF, CO_UF, NO_MUNICIPIO,
       CO_MUNICIPIO, TP_ORGANIZACAO_ACADEMICA, TP_REDE,
       TP_CATEGORIA_ADMINISTRATIVA, CO_IES, NO_CURSO, CO_CURSO, NO_CINE_ROTULO,
       CO_CINE_ROTULO, CO_CINE_AREA_GERAL, NO_CINE_AREA_GERAL,
       CO_CINE_AREA_ESPECIFICA, NO_CINE_AREA_ESPECIFICA,
       CO_CINE_AREA_DETALHADA, NO_CINE_AREA_DETALHADA, TP_GRAU_ACADEMICO,
       IN_GRATUITO, TP_MODALIDADE_ENSINO, TP_NIVEL_ACADEMICO >>

\* The fact-table columns of process_csv_files.
main_table_columns ==
    << NU_ANO_CENSO, CO_REGIAO, CO_UF, CO_MUNICIPIO, CO_IES, CO_CURSO >>

\* The nine insert_unique_values calls of process_csv_files, in call order.
dimension_tables ==
    << [name |-> "regions", columns |-> <<CO_REGIAO, NO_REGIAO>>],
       [name |-> "states", columns |-> <<CO_UF, NO_UF, SG_UF>>],
       [name |-> "municipalities",
        columns |-> <<CO_MUNICIPIO, NO_MUNICIPIO, CO_UF>>],
       [name |-> "institutions",
        columns |-> <<CO_IES, TP_ORGANIZACAO_ACADEMICA, TP_REDE,
                      TP_CATEGORIA_ADMINISTRATIVA>>],
       [name |-> "courses",
        columns |-> <<CO_CURSO, NO_CURSO, CO_CINE_ROTULO, CO_CINE_AREA_GERAL,
                      CO_CINE_AREA_ESPECIFICA, CO_CINE_AREA_DETALHADA,
                      TP_GRAU_ACADEMICO, IN_GRATUITO, TP_MODALIDADE_ENSINO,
                      TP_NIVEL_ACADEMICO>>],
       [name |-> "cine_rotulos", columns |-> <<CO_CINE_ROTULO, NO_CINE_ROTULO>>],
       [name |-> "cine_areas_gerais",
        columns |-> <<CO_CINE_AREA_GERAL, NO_CINE_AREA_GERAL>>],
       [name |-> "cine_areas_especificas",
        columns |-> <<CO_CINE_AREA_ESPECIFICA, NO_CINE_AREA_ESPECIFICA>>],
       [name |-> "cine_areas_detalhadas",
        columns |-> <<CO_CINE_AREA_DETALHADA, NO_CINE_AREA_DETALHADA>>] >>

\* The columns process_csv_files casts to int32 on every chunk.
int32_columns == << CO_UF, CO_REGIAO, CO_MUNICIPIO, TP_GRAU_ACADEMICO >>

---------------------------------------------------------------------------
(* Helpers on sequences, sets and text.                                    *)

Range(s) == { s[i] : i \in DOMAIN s }

Min(a, b) == IF a <= b THEN a ELSE b

\* str.startswith on token sequences.
startswith(col, prefix) ==
    /\ Len(col) >= Len(prefix)
    /\ SubSeq(col, 1, Len(prefix)) = prefix

\* str.lower on the file extensions of the model.
lower(s) == CASE s = "CSV" -> "csv" [] s = "TXT" -> "txt" [] OTHER -> s

\* The numeric texts of the model and the integers they denote.
IntOf == ("0" :> 0) @@ ("1" :> 1) @@ ("01" :> 1) @@ ("2" :> 2) @@ ("3" :> 3)
         @@ ("5" :> 5) @@ ("12" :> 12) @@ ("300" :> 300) @@ ("2023" :> 2023)

\* The decimal text of an integer the model stores.
Repr == (0 :> "0") @@ (1 :> "1") @@ (2 :> "2") @@ (3 :> "3") @@ (5 :> "5")
        @@ (12 :> "12") @@ (300 :> "300") @@ (2023 :> "2023")

isna(v) == v = ""


---------------------------------------------------------------------------
(* extract_dataframe_from_csv: the column and type plan.                   *)

\* The header columns named QT_ING... or QT_CONC...
qt_columns(all_columns) ==
    { col \in all_columns :
        startswith(col, <<"QT", "ING">>) \/ startswith(col, <<"QT", "CONC">>) }

\* list(set(usecols + qt_columns)); with no usecols every column is read.
combined_usecols(cols, all_columns) ==
    IF cols = <<>> THEN all_columns
    ELSE Range(cols) \cup qt_columns(all_columns)

\* The dtype given to read_csv for a column; "infer" when the dict has no
\* entry for it (and for every column when no usecols are given).
dtype(cols, col) ==
    IF cols = <<>> THEN "infer"
    ELSE IF startswith(col, <<"NO">>) \/ startswith(col, <<"SG">>)
         THEN "string"
    ELSE IF startswith(col, <<"IN">>) THEN "int8"
    ELSE IF startswith(col, <<"QT">>) THEN "int32"
    ELSE "infer"

\* read_csv rejects a usecols name the header does not have.
usecols_missing(cols, all_columns) ==
    ~ (combined_usecols(cols, all_columns) \subseteq all_columns)

---------------------------------------------------------------------------
(* extract_dataframe_from_csv: reading one chunk.                          *)

\* The data rows at positions lo..hi of a file: a frame is a sequence of
\* rows, each holding its DataFrame index (the position in the file) and
\* its cells.
raw_chunk(file, lo, hi) ==
    [ i \in 1..(hi - lo + 1) |-> [idx |-> lo + i - 1,
                                 val |-> file.rows[lo + i - 1]] ]

\* A cell read_csv cannot store under an integer dtype: a missing value,
\* text that is no number, a number outside the width (every number of the
\* model fits 32 bits).
int_cell_error(dt, v) ==
    \/ v \notin DOMAIN IntOf
    \/ dt = "int8" /\ (IntOf[v] < -128 \/ IntOf[v] > 127)

\* read_csv raises ValueError on the chunk.
read_error(cols, raw, columns) ==
    \E i \in DOMAIN raw : \E col \in columns :
        /\ dtype(cols, col) \in {"int8", "int32"}
        /\ int_cell_error(dtype(cols, col), raw[i].val[col])

\* An untyped column is numeric in a chunk when every cell of it that is
\* present is a number; otherwise it stays text (object).
numeric_column(raw, col) ==
    \A i \in DOMAIN raw :
        isna(raw[i].val[col]) \/ raw[i].val[col] \in DOMAIN IntOf

\* The value of a cell in the frame read_csv returns.
parse_cell(cols, raw, col, v) ==
    CASE dtype(cols, col) = "string" -> v
      [] dtype(cols, col) \in {"int8", "int32"} -> Repr[IntOf[v]]
      [] OTHER -> IF ~ isna(v) /\ numeric_column(raw, col)
                  THEN Repr[IntOf[v]] ELSE v

\* The chunk read_csv yields: the selected columns, typed.
parse_chunk(cols, raw, columns) ==
    [ i \in DOMAIN raw |->
        [idx |-> raw[i].idx,
         val |-> [col \in columns |->
                    parse_cell(cols, raw, col, raw[i].val[col])]] ]

\* A dropna that drops only the rows with every value missing (how="all").
dropna_all(df) ==
    SelectSeq(df, LAMBDA r : \E col \in DOMAIN r.val : ~ isna(r.val[col]))

\* chunk.dropna(how="any", axis=0)
dropna(df) ==
    SelectSeq(df, LAMBDA r : \A col \in DOMAIN r.val : ~ isna(r.val[col]))

---------------------------------------------------------------------------
(* process_csv_files: the work on one chunk.                               *)

columns_of(df, columns) == IF df = <<>> THEN columns ELSE DOMAIN df[1].val

\* chunk[col].astype("int32") raises ValueError.
astype_error(df, columns) ==
    \E i \in DOMAIN df : \E col \in Range(int32_columns) \cap columns :
        int_cell_error("int32", df[i].val[col])

\* The chunk after the four astype("int32") assignments.
astype_int32(df, columns) ==
    [ i \in DOMAIN df |->
        [idx |-> df[i].idx,
         val |-> [col \in columns |->
                    IF col \in Range(int32_columns)
                    THEN Repr[IntOf[df[i].val[col]]]
                    ELSE df[i].val[col]]] ]

\* df[columns]
project(df, columns) ==
    [ i \in DOMAIN df |->
        [idx |-> df[i].idx,
         val |-> [col \in Range(columns) |-> df[i].val[col]]] ]

\* The rows of df at the positions in keep, in order.
take(df, keep) ==
    LET F[i \in 0..Len(df)] ==
            IF i = 0 THEN <<>>
            ELSE IF i \in keep THEN Append(F[i - 1], df[i]) ELSE F[i - 1]
    IN  F[Len(df)]

\* A drop_duplicates that drops nothing.
drop_duplicates_none(df) == df

\* DataFrame.drop_duplicates(): the first row of every distinct tuple.
drop_duplicates(df) ==
    take(df, { i \in DOMAIN df :
                 \A j \in 1..(i - 1) : df[j].val # df[i].val })

\* The frame insert_unique_values hands to to_sql.
unique_values(df, columns) == drop_duplicates(project(df, columns))

---------------------------------------------------------------------------
(* The database: pandas to_sql over one sqlite3 connection.                *)

fact_table == "microdados"

table_names == { dimension_tables[i].name : i \in DOMAIN dimension_tables }
                   \cup {fact_table}

\* A plan that writes the fact table before the dimension tables.
write_plan_fact_first ==
    [ i \in 1..(Len(dimension_tables) + 1) |->
        IF i = 1
        THEN [name |-> fact_table, columns |-> main_table_columns,
              unique |-> FALSE]
        ELSE [name |-> dimension_tables[i - 1].name,
              columns |-> dimension_tables[i - 1].columns, unique |-> TRUE] ]

\* The tables written for one chunk, in the order of the calls: the nine
\* dimension tables through insert_unique_values, then the fact table.
write_plan ==
    [ i \in 1..(Len(dimension_tables) + 1) |->
        IF i <= Len(dimension_tables)
        THEN [name |-> dimension_tables[i].name,
              columns |-> dimension_tables[i].columns, unique |-> TRUE]
        ELSE [name |-> fact_table, columns |-> main_table_columns,
              unique |-> FALSE] ]

\* df[columns] raises KeyError.
key_error(df_columns, columns) == ~ (Range(columns) \subseteq df_columns)

\* The frame handed to to_sql for one entry of the plan.
frame_for(df, entry) ==
    IF entry.unique THEN unique_values(df, entry.columns)
    ELSE project(df, entry.columns)

\* to_sql(..., if_exists="append") refuses a frame with a column the
\* existing table does not have.
schema_error(conn, table_name, columns) ==
    conn[table_name].created /\ ~ (Range(columns) \subseteq conn[table_name].columns)

\* to_sql(table_name, conn, if_exists="append", index=False): the table is
\* created on its first write; the rows are appended, the index is not
\* stored; the append is committed as a whole.
to_sql(df, table_name, conn, columns) ==
    [ conn EXCEPT ![table_name] =
        [created |-> TRUE,
         columns |-> IF @.created THEN @.columns ELSE Range(columns),
         rows |-> @.rows \o [ i \in DOMAIN df |-> df[i].val ]] ]

---------------------------------------------------------------------------
(* The files of the data directory.                                        *)

Header == Range(selected_columns)

KeyCodes == { CO_REGIAO, CO_UF, CO_MUNICIPIO, CO_IES, CO_CURSO }

\* A complete row: code k in the five key-code columns, label nm in the
\* text columns.
Row(header, k, nm) ==
    [ col \in header |->
        IF startswith(col, <<"NO">>) \/ startswith(col, <<"SG">>) THEN nm
        ELSE IF col = NU_ANO_CENSO THEN "2023"
        ELSE IF startswith(col, <<"QT">>) THEN "5"
        ELSE IF col \in KeyCodes THEN k
        ELSE "1" ]

\* A clean file: two rows of one key whose region label differs, a row with
\* a missing course name, a row of another key.
FileCursos ==
    [name |-> "MICRODADOS_CADASTRO_CURSOS", ext |-> "CSV", header |-> Header,
     rows |-> << Row(Header, "1", "a"),
                 [Row(Header, "1", "a") EXCEPT ![CO_REGIAO] = "01",
                                               ![NO_REGIAO] = "b"],
                 [Row(Header, "3", "c") EXCEPT ![NO_CURSO] = ""],
                 Row(Header, "2", "b") >>]

HeaderQT == Header \cup {QT_ING, QT_CONC, QT_MAT}

\* A file with count columns: a row whose unselected QT_MAT is missing, a row
\* with a missing institution code, a clean row, a row whose count QT_ING is
\* missing.
FileQT ==
    [name |-> "MICRODADOS_QT", ext |-> "csv", header |-> HeaderQT,
     rows |-> << [Row(HeaderQT, "2", "b") EXCEPT ![QT_MAT] = ""],
                 [Row(HeaderQT, "3", "c") EXCEPT ![CO_IES] = ""],
                 Row(HeaderQT, "1", "a"),
                 [Row(HeaderQT, "3", "c") EXCEPT ![QT_ING] = ""] >>]

\* A file whose last row has a state code that is no number.
FileUF ==
    [name |-> "MICRODADOS_UF", ext |-> "csv", header |-> Header,
     rows |-> << Row(Header, "2", "b"),
                 Row(Header, "1", "a"),
                 Row(Header, "2", "b"),
                 [Row(Header, "3", "c") EXCEPT ![CO_UF] = "x"] >>]

HeaderNoRegion == Header \ {NO_REGIAO}

\* A file of a year whose layout has no region label column.
FileNoRegion ==
    [name |-> "MICRODADOS_SEM_REGIAO", ext |-> "csv",
     header |-> HeaderNoRegion,
     rows |-> << Row(HeaderNoRegion, "2", "b") >>]

\* A file that is no CSV file.
FileLeiaMe ==
    [name |-> "LEIA_ME", ext |-> "txt", header |-> {}, rows |-> << >>]

FilePool == { FileCursos, FileQT, FileUF, FileNoRegion, FileLeiaMe }

\* The name of a file as os.walk gives it.
Filename(file) == [name |-> file.name, ext |-> file.ext]

Filenames == { Filename(file) : file \in FilePool }

\* The file a name denotes, as read_csv finds it on disk.
Content == [ fn \in Filenames |->
               CHOOSE file \in FilePool : Filename(file) = fn ]

\* The file lists of at most n files.
Listings(n) == UNION { [1..k -> Filenames] : k \in 0..n }

---------------------------------------------------------------------------
(* extract_microdados: the run.                                            *)

\* The default of extract_microdados(start_year=2023, ...).
start_year == 2023

end_year == start_year + NumYears - 1

Years == start_year..end_year

NoTable == [created |-> FALSE, columns |-> {}, rows |-> << >>]

NoDir == [visited |-> FALSE, exists |-> FALSE, files |-> << >>,
          attempted |-> {}]

\* Files listed so far, all years together.
FilesListed ==
    LET F[y \in (start_year - 1)..end_year] ==
            IF y < start_year THEN 0 ELSE F[y - 1] + Len(fs[y].files)
    IN  F[end_year]

Entry(level, msg, y, detail) ==
    [level |-> level, msg |-> msg, year |-> y, detail |-> detail]

\* State after construction: the connection is open on an empty database,
\* the year loop is at start_year.  fs records the directories as the run
\* finds them, prov the source row (year, file, row) of every stored row,
\* batches the raw row positions of the chunks read from the current file,
\* handled the number of chunks whose writes are all done, lastAppend the
\* rows of the latest to_sql.
Init ==
    /\ year = start_year
    /\ pc = "year"
    /\ listing = << >>
    /\ fidx = 0
    /\ usecols = {}
    /\ pos = 0
    /\ chunk = << >>
    /\ tbl = 0
    /\ db = [t \in table_names |-> NoTable]
    /\ log = << >>
    /\ fs = [y \in Years |-> NoDir]
    /\ prov = [t \in table_names |-> << >>]
    /\ batches = << >>
    /\ handled = 0
    /\ lastAppend = [table |-> "", rows |-> << >>]

\* The locals of process_csv_files are dead once it has returned or raised.
LeaveDirectory ==
    /\ listing' = << >>
    /\ fidx' = 0
    /\ usecols' = {}
    /\ pos' = 0
    /\ chunk' = << >>
    /\ tbl' = 0
    /\ batches' = << >>
    /\ handled' = 0

\* An except clause that ends the run instead of going on with the next year.
Raise_abort(lg, cause) ==
    /\ log' = Append(lg, Entry("ERROR", "Error processing files for year",
                               year, cause))
    /\ year' = year
    /\ pc' = "done"
    /\ LeaveDirectory

\* An exception raised inside process_csv_files reaches the except clause of
\* extract_microdados: the error is logged and the year loop goes on.
Raise(lg, cause) ==
    /\ log' = Append(lg, Entry("ERROR", "Error processing files for year",
                               year, cause))
    /\ year' = year + 1
    /\ pc' = "year"
    /\ LeaveDirectory

\* os.path.exists(year_dir) is false: a warning, and the next year.
DirectoryNotFound ==
    /\ pc = "year"
    /\ year <= end_year
    /\ fs' = [fs EXCEPT ![year] = [NoDir EXCEPT !.visited = TRUE]]
    /\ log' = Append(log, Entry("WARNING", "Directory for year not found",
                                year, ""))
    /\ year' = year + 1
    /\ UNCHANGED <<pc, listing, fidx, usecols, pos, chunk, tbl, db, prov,
                   batches, handled, lastAppend>>

\* The directory exists: process_csv_files is called on it and os.walk
\* lists its files.
ProcessYear ==
    /\ pc = "year"
    /\ year <= end_year
    /\ \E files \in Listings(MaxFiles - FilesListed) :
          /\ fs' = [fs EXCEPT ![year] = [visited |-> TRUE, exists |-> TRUE,
                                         files |-> files, attempted |-> {}]]
          /\ listing' = files
    /\ log' = Append(log, Entry("INFO", "Processing files for year", year, ""))
    /\ fidx' = 1
    /\ pc' = "file"
    /\ UNCHANGED <<year, usecols, pos, chunk, tbl, db, prov, batches, handled,
                   lastAppend>>

\* range(start_year, end_year + 1) is exhausted: the with block commits.
Finish ==
    /\ pc = "year"
    /\ year > end_year
    /\ pc' = "done"
    /\ UNCHANGED <<year, listing, fidx, usecols, pos, chunk, tbl, db, log, fs,
                   prov, batches, handled, lastAppend>>

\* filename.lower().endswith(".csv")
is_csv(filename) == lower(filename.ext) = "csv"

\* os.walk has no more files: process_csv_files returns.
EndOfDirectory ==
    /\ pc = "file"
    /\ fidx > Len(listing)
    /\ year' = year + 1
    /\ pc' = "year"
    /\ LeaveDirectory
    /\ UNCHANGED <<db, log, fs, prov, lastAppend>>

\* A file that is no CSV file is passed over.
SkipFile ==
    /\ pc = "file"
    /\ fidx <= Len(listing)
    /\ ~ is_csv(listing[fidx])
    /\ fidx' = fidx + 1
    /\ usecols' = {}
    /\ pos' = 0
    /\ batches' = << >>
    /\ handled' = 0
    /\ UNCHANGED <<year, pc, listing, chunk, tbl, db, log, fs, prov,
                   lastAppend>>

\* "Reading file": the generator is started; its first step reads the
\* header, plans the columns and opens the chunked reader.
ReadingFile ==
    /\ pc = "file"
    /\ fidx <= Len(listing)
    /\ is_csv(listing[fidx])
    /\ fs' = [fs EXCEPT ![year].attempted = @ \cup {fidx}]
    /\ LET file == Content[listing[fidx]]
           info == Append(log, Entry("INFO", "Reading file", year, file.name))
       IN  IF usecols_missing(selected_columns, file.header)
           THEN Raise(info, "usecols")
           ELSE /\ log' = info
                /\ usecols' = combined_usecols(selected_columns, file.header)
                /\ pos' = 0
                /\ batches' = << >>
                /\ handled' = 0
                /\ pc' = "chunk"
                /\ UNCHANGED <<year, listing, fidx, chunk, tbl>>
    /\ UNCHANGED <<db, prov, lastAppend>>

\* read_csv has no more rows to give after row p.
exhausted(file, p) == p >= Len(file.rows)

\* The reader is exhausted: the next file.  What the reader of the finished
\* file has read stays on record until the next file is looked at.
EndOfFile ==
    /\ pc = "chunk"
    /\ exhausted(Content[listing[fidx]], pos)
    /\ fidx' = fidx + 1
    /\ pc' = "file"
    /\ UNCHANGED <<year, listing, usecols, pos, chunk, tbl, db, log, fs, prov,
                   batches, handled, lastAppend>>

\* A reader that takes one row too many into a chunk.
chunk_end_long(file, p, n) == Min(p + n + 1, Len(file.rows))

\* The last data row of the chunk that starts after row p.
chunk_end(file, p, n) == Min(p + n, Len(file.rows))

\* The next chunk is pulled: at most chunksize rows are read and typed, the
\* rows with a missing value are dropped, the four code columns are cast.
ReadChunk ==
    /\ pc = "chunk"
    /\ ~ exhausted(Content[listing[fidx]], pos)
    /\ LET file == Content[listing[fidx]]
           hi == chunk_end(file, pos, chunksize)
           raw == raw_chunk(file, pos + 1, hi)
           df == dropna(parse_chunk(selected_columns, raw, usecols))
       IN  IF read_error(selected_columns, raw, usecols)
           THEN Raise(log, "read_csv")
           ELSE IF astype_error(df, usecols)
           THEN Raise(log, "astype")
           ELSE /\ chunk' = astype_int32(df, usecols)
                /\ pos' = hi
                /\ batches' = Append(batches, [i \in DOMAIN raw |-> raw[i].idx])
                /\ tbl' = 1
                /\ pc' = "write"
                /\ UNCHANGED <<year, listing, fidx, usecols, log, handled>>
    /\ UNCHANGED <<db, fs, prov, lastAppend>>

\* After a table is written: the next table of the chunk, or the next chunk.
AfterWrite ==
    IF tbl < Len(write_plan)
    THEN /\ tbl' = tbl + 1
         /\ UNCHANGED <<pc, chunk, handled>>
    ELSE /\ tbl' = 0
         /\ chunk' = << >>
         /\ handled' = handled + 1
         /\ pc' = "chunk"

\* One insert_unique_values call, or the fact-table to_sql, on the chunk.
WriteTable ==
    /\ pc = "write"
    /\ LET entry == write_plan[tbl]
           df == frame_for(chunk, entry)
       IN  IF key_error(columns_of(chunk, usecols), entry.columns)
           THEN Raise(log, "KeyError") /\ UNCHANGED <<db, prov, lastAppend>>
           ELSE IF schema_error(db, entry.name, entry.columns)
           THEN Raise(log, "to_sql") /\ UNCHANGED <<db, prov, lastAppend>>
           ELSE /\ db' = to_sql(df, entry.name, db, entry.columns)
                /\ prov' = [prov EXCEPT ![entry.name] =
                              @ \o [i \in DOMAIN df |->
                                      <<year, fidx, df[i].idx>>]]
                /\ lastAppend' = [table |-> entry.name,
                                  rows |-> [i \in DOMAIN df |-> df[i].val]]
                /\ AfterWrite
                /\ UNCHANGED <<year, listing, fidx, usecols, pos, batches, log>>
    /\ UNCHANGED fs

\* The database refuses the write (locked, disk full): to_sql rolls its
\* transaction back and raises.
WriteFails ==
    /\ pc = "write"
    /\ Raise(log, "to_sql")
    /\ UNCHANGED <<db, fs, prov, lastAppend>>

Next ==
    \/ DirectoryNotFound
    \/ ProcessYear
    \/ Finish
    \/ EndOfDirectory
    \/ SkipFile
    \/ ReadingFile
    \/ EndOfFile
    \/ ReadChunk
    \/ WriteTable
    \/ WriteFails

Spec == Init /\ [][Next]_vars

---------------------------------------------------------------------------
(* Properties.                                                             *)

dimension_names == { dimension_tables[i].name : i \in DOMAIN dimension_tables }

\* The file a stored row was read from.
SourceFile(src) == Content[fs[src[1]].files[src[2]]]

\* The columns selected from a file: the static selection and the count
\* columns found in its header.
Selected(file) ==
    Range(selected_columns)
        \cup { col \in file.header :
                 startswith(col, QT_ING) \/ startswith(col, QT_CONC) }

HasMissing(file, i) ==
    \E col \in Selected(file) \cap file.header : file.rows[i][col] = ""

\* The rows of each file with a missing value in a selected column.
MissingRows ==
    [ fn \in Filenames |->
        { i \in DOMAIN Content[fn].rows : HasMissing(Content[fn], i) } ]

ErrorLogged(y, causes) ==
    \E k \in DOMAIN log :
        log[k].level = "ERROR" /\ log[k].year = y /\ log[k].detail \in causes

Concat(ss) ==
    LET F[i \in 0..Len(ss)] == IF i = 0 THEN << >> ELSE F[i - 1] \o ss[i]
    IN  F[Len(ss)]

\* C1: per-file failure isolation: once the run has left a year directory,
\* every CSV file of that directory has been attempted, whatever happened
\* to the files before it.
C1_PerFileIsolation ==
    \A y \in Years :
        (fs[y].exists /\ year > y) =>
            \A i \in DOMAIN fs[y].files :
                is_csv(fs[y].files[i]) => i \in fs[y].attempted

\* C2: key uniqueness after a load run: when the run has finished, no table
\* holds two rows with the same values in the columns of its key-tuple (the
\* rows of a table hold exactly those columns).
C2_KeyUniqueAfterRun ==
    pc = "done" =>
        \A t \in table_names :
            \A i, j \in DOMAIN db[t].rows :
                i # j => db[t].rows[i] # db[t].rows[j]

\* C3: null-drop policy: in every state, no row of any table was derived
\* from a source row with a missing value in a selected column (the static
\* selection plus the count columns found in the header of its file).
C3_NullDrop ==
    \A t \in table_names :
        \A i \in DOMAIN prov[t] :
            prov[t][i][3]
                \notin MissingRows[fs[prov[t][i][1]].files[prov[t][i][2]]]

\* C3 witness: a chunk that held a row with a missing selected value has been
\* written, and another row of that chunk is in the fact table.
C3_Witness ==
    /\ pc \in {"chunk", "file"}
    /\ \E b \in 1..handled :
         /\ \E i \in Range(batches[b]) : HasMissing(SourceFile(<<year, fidx
                - (IF pc = "file" THEN 1 ELSE 0), i>>), i)
         /\ \E i \in Range(batches[b]) : \E k \in DOMAIN prov[fact_table] :
                prov[fact_table][k] =
                    <<year, fidx - (IF pc = "file" THEN 1 ELSE 0), i>>

\* C4: auto-discovered count columns reach the fact table: every fact row
\* carries every QT_ING... and QT_CONC... column of the header of the file
\* it comes from.
C4_CountColumnsInFact ==
    \A i \in DOMAIN prov[fact_table] :
        qt_columns(SourceFile(prov[fact_table][i]).header)
            \subseteq DOMAIN db[fact_table].rows[i]

\* C5: missing dimension columns are a no-op skip: a file that lacks a
\* column of some dimension (and has the fact columns) raises no error for
\* it, and the fact rows of its handled chunks are written.
C5_MissingDimensionSkipped ==
    \A y \in Years : \A i \in fs[y].attempted :
        LET file == Content[fs[y].files[i]]
        IN  ( /\ \E d \in DOMAIN dimension_tables :
                    ~ (Range(dimension_tables[d].columns) \subseteq file.header)
              /\ Range(main_table_columns) \subseteq file.header )
            => /\ ~ ErrorLogged(y, {"usecols", "KeyError"})
               /\ (year > y /\ ~ ErrorLogged(y, {"read_csv", "astype", "to_sql"}))
                    => \A r \in DOMAIN file.rows :
                          HasMissing(file, r)
                          \/ \E k \in DOMAIN prov[fact_table] :
                                prov[fact_table][k] = <<y, i, r>>

\* C6: per-table write error isolation: a step in which the append to one
\* table fails leaves the loader on the same chunk at the next table, or,
\* after the last table, on the same file at the next chunk.
C6_WriteErrorIsolated ==
    [][ ( /\ pc = "write"
          /\ Len(log') = Len(log) + 1
          /\ log'[Len(log')].level = "ERROR"
          /\ log'[Len(log')].detail = "to_sql" )
        => ( /\ year' = year
             /\ fidx' = fidx
             /\ IF tbl < Len(write_plan)
                THEN pc' = "write" /\ tbl' = tbl + 1 /\ chunk' = chunk
                ELSE pc' = "chunk" ) ]_vars

\* C7: directory skip: the years are visited in ascending order; a year
\* whose directory is missing gets a warning and no error and none of its
\* files is touched; when the run is over every year of the range has been
\* visited and process_csv_files was called for every year whose directory
\* exists.
C7_DirectorySkip ==
    /\ \A y \in Years :
         fs[y].visited <=> (y < year \/ (y = year /\ pc \notin {"year", "done"}))
    /\ \A j, k \in DOMAIN log : j < k => log[j].year <= log[k].year
    /\ \A y \in Years :
         (fs[y].visited /\ ~ fs[y].exists) =>
            /\ \E k \in DOMAIN log :
                 log[k].level = "WARNING" /\ log[k].year = y
            /\ \A k \in DOMAIN log :
                 log[k].year = y => log[k].level = "WARNING"
    /\ pc = "done" =>
         \A y \in Years :
            /\ fs[y].visited
            /\ fs[y].exists =>
                 \E k \in DOMAIN log :
                    /\ log[k].msg = "Processing files for year"
                    /\ log[k].year = y

\* C7 witness: the run is over, and a year whose directory is missing came
\* before a year whose files were read.
C7_Witness ==
    /\ pc = "done"
    /\ \E y1, y2 \in Years :
         /\ y1 < y2
         /\ fs[y1].visited /\ ~ fs[y1].exists
         /\ fs[y2].exists /\ fs[y2].attempted # {}

\* C8: chunk completeness and order: the chunks read from a file so far are
\* its rows 1..pos in file order, each row once, each chunk of 1 to
\* chunksize consecutive rows; the rows of the chunk being written are rows
\* of the last batch, in order, with the text of the file; a chunk is pulled
\* only when all writes of the one before it are done; and when the reader
\* is exhausted the chunks are the whole file.
C8_ChunkCompleteness ==
    /\ pc \in {"chunk", "write"} =>
         /\ Concat(batches) = [i \in 1..pos |-> i]
         /\ pos <= Len(Content[listing[fidx]].rows)
         /\ \A b \in DOMAIN batches :
                Len(batches[b]) >= 1 /\ Len(batches[b]) <= chunksize
    /\ pc = "chunk" => handled = Len(batches)
    /\ pc = "write" =>
         /\ handled = Len(batches) - 1
         /\ \A i \in DOMAIN chunk :
              /\ chunk[i].idx \in Range(batches[Len(batches)])
              /\ \A j \in DOMAIN chunk : i < j => chunk[i].idx < chunk[j].idx
              /\ \A col \in DOMAIN chunk[i].val :
                    (startswith(col, <<"NO">>) \/ startswith(col, <<"SG">>))
                    => chunk[i].val[col]
                         = Content[listing[fidx]].rows[chunk[i].idx][col]
    /\ (pc = "file" /\ batches # << >>) =>
         /\ handled = Len(batches)
         /\ Concat(batches)
              = [i \in 1..Len(Content[listing[fidx - 1]].rows) |-> i]

\* C8 witness: a file of more rows than a chunk holds has been read to its
\* end in two or more chunks.
C8_Witness ==
    /\ pc = "file"
    /\ Len(batches) >= 2
    /\ Len(Content[listing[fidx - 1]].rows) > chunksize

\* The key of a dimension: its leading code column.
KeyColumn ==
    [ t \in dimension_names |->
        (CHOOSE d \in Range(dimension_tables) : d.name = t).columns[1] ]

KeyOf(table) == KeyColumn[table]

\* C9 as stated: the rows appended to a dimension table for one batch hold
\* at most one row per value of the dimension's leading code column.
C9_DistinctByCode ==
    lastAppend.table \in dimension_names =>
        \A i, j \in DOMAIN lastAppend.rows :
            i # j => lastAppend.rows[i][KeyOf(lastAppend.table)]
                        # lastAppend.rows[j][KeyOf(lastAppend.table)]

\* C9 amended: the rows appended to a dimension table for one batch hold at
\* most one row per distinct tuple of the dimension's declared columns, and
\* they are exactly the tuples of the surviving rows of the batch (so every
\* key value of the batch appears).
C9_DistinctByTuple ==
    (pc = "write" /\ tbl > 1 /\ write_plan[tbl - 1].unique) =>
        /\ lastAppend.table = write_plan[tbl - 1].name
        /\ \A i, j \in DOMAIN lastAppend.rows :
              i # j => lastAppend.rows[i] # lastAppend.rows[j]
        /\ Range(lastAppend.rows)
             = { [col \in Range(write_plan[tbl - 1].columns) |->
                    chunk[i].val[col]] : i \in DOMAIN chunk }

\* C9 witness: a batch with two rows of one region code and two region
\* labels has been written to the regions table, both rows appended.
C9_Witness ==
    /\ pc = "write"
    /\ lastAppend.table = "regions"
    /\ Len(lastAppend.rows) = 2
    /\ lastAppend.rows[1][CO_REGIAO] = lastAppend.rows[2][CO_REGIAO]
    /\ lastAppend.rows[1][NO_REGIAO] # lastAppend.rows[2][NO_REGIAO]

\* The dimensions the fact table refers to by a code of its own.
fact_dimensions ==
    { "regions", "states", "municipalities", "institutions", "courses" }

\* C10: fact rows never precede their dimension rows: in every state, every
\* row of microdados has, in each of regions, states, municipalities,
\* institutions and courses, a row whose key code is that of the fact row.
C10_FactHasDimensions ==
    \A i \in DOMAIN db[fact_table].rows :
        \A t \in fact_dimensions :
            \E j \in DOMAIN db[t].rows :
                db[t].rows[j][KeyOf(t)] = db[fact_table].rows[i][KeyOf(t)]

\* C10 witness: a write failed in the middle of a chunk, after the regions
\* of that chunk were stored, and the fact table holds rows.
C10_Witness ==
    /\ pc = "year"
    /\ ErrorLogged(year - 1, {"to_sql"})
    /\ db[fact_table].rows # << >>
    /\ Len(db["regions"].rows) > Len(db["courses"].rows)

=============================================================================
